---- MODULE Spec2Model ----
(***************************************************************************)
(* dashboard.py: the listening-history dashboard script.  One execution of *)
(* the script is a run: load_data, the sidebar multiselects, the filter,   *)
(* the metric, the two Top-10 tables and the charts.  The user changing a  *)
(* multiselect makes the framework execute the script again from the top,  *)
(* with load_data answered from its cache.                                 *)
(*                                                                         *)
(* Encodings.  A raw ts cell is the tuple <<hh, mm, ss>> of the clock      *)
(* fields of an ISO text "2024-01-01Thh:mm:ss", or <<>> for a text that is *)
(* no date ("not-a-date").  Names are single upper-case letters, compared  *)
(* as Python compares them.  A float quotient x / d is kept exact as the   *)
(* pair [num |-> x, den |-> d].  Multiselect values are kept as sets (the  *)
(* script only passes them to isin).                                       *)
(***************************************************************************)
EXTENDS Integers, Sequences, FiniteSets, TLC

VARIABLES
    source,     \* the file at CSV_PATH
    cache,      \* st.cache_data memo of load_data: <<>> or <<DataFrame>>
    widgets,    \* session state of the three multiselects (empty before first render)
    env,        \* the script's module-level names bound so far in this run
    alerts,     \* st.error / st.warning elements rendered in this run
    pc          \* position of the run in the script

vars == <<source, cache, widgets, env, alerts, pc>>

\* ---------- bounds of the model ----------
MaxRows == 3
MaxGroups == 11

\* ---------- CONSTANTS of the script ----------
DATE_COL == "ts"
REQUIRED_COLS == {"ts", "artist_name", "album_name", "track_name", "ms_played", "platform"}
TopN == 10
MsPerHour == 3600000
MsPerSecond == 1000
MinPlaytimeS == 5

\* ---------- small helpers ----------
Alphabet == <<"A", "B", "C", "D", "E", "F", "G", "H", "I", "J", "K", "L", "M",
              "N", "O", "P", "Q", "R", "S", "T", "U", "V", "W", "X", "Y", "Z">>

\* position of a one-letter name in Python's string order
Rank(s) == CHOOSE i \in 1..Len(Alphabet) : Alphabet[i] = s

Min(a, b) == IF a < b THEN a ELSE b

\* name binding: env with name n (re)bound to v
Bind(e, n, v) == [x \in (DOMAIN e) \cup {n} |-> IF x = n THEN v ELSE e[x]]

Bound(n) == n \in DOMAIN env

\* sorted(values): ascending list of a set of names
RECURSIVE Sorted(_)
Sorted(S) ==
    IF S = {} THEN <<>>
    ELSE LET m == CHOOSE x \in S : \A y \in S : Rank(x) <= Rank(y)
         IN  <<m>> \o Sorted(S \ {m})

\* ---------- load_data ----------
NaT == [hour |-> -1, minute |-> -1, second |-> -1]

\* pd.to_datetime(cell, errors="coerce")
ToDatetime(raw) ==
    IF /\ Len(raw) = 3
       /\ raw[1] \in 0..23
       /\ raw[2] \in 0..59
       /\ raw[3] \in 0..59
    THEN [hour |-> raw[1], minute |-> raw[2], second |-> raw[3]]
    ELSE NaT

\* df[DATE_COL] = pd.to_datetime(df[DATE_COL], errors="coerce")
CoerceDates(rows) ==
    [i \in 1..Len(rows) |-> [rows[i] EXCEPT ![DATE_COL] = ToDatetime(@)]]

IsValidDate(r) == r[DATE_COL] # NaT

DropNaKeepsAll(rows) == rows

\* df.dropna(subset=[DATE_COL])
DropNa(rows) == SelectSeq(rows, IsValidDate)

\* ms_played / 1000, exact: whole seconds and the remaining milliseconds
PlaytimeS(ms) == [whole |-> ms \div MsPerSecond, milli |-> ms % MsPerSecond]

\* df["playtime_s"] = df["ms_played"] / 1000
WithPlaytime(rows) ==
    [i \in 1..Len(rows) |-> Bind(rows[i], "playtime_s", PlaytimeS(rows[i].ms_played))]

MissingForgetsTrack(columns) == (REQUIRED_COLS \ {"track_name"}) \ columns

\* missing = REQUIRED_COLS - set(df.columns)
Missing(columns) == REQUIRED_COLS \ columns

\* the DataFrame load_data returns for a readable file with all columns
Preprocess(rows) == WithPlaytime(DropNa(CoerceDates(rows)))

\* ---------- sidebar ----------
\* df[col].unique()
Unique(d, col) == {d[i][col] : i \in 1..Len(d)}

\* options=sorted(df[col].unique())
Options(d, col) == Sorted(Unique(d, col))

Range(s) == {s[i] : i \in 1..Len(s)}

DefaultSelectionDropsLast(d) ==
    [artists   |-> Range(SubSeq(Options(d, "artist_name"), 1, Len(Options(d, "artist_name")) - 1)),
     albums    |-> Range(Options(d, "album_name")),
     platforms |-> Range(Options(d, "platform"))]

\* default=sorted(df[col].unique()) of the three multiselects
DefaultSelection(d) ==
    [artists   |-> Range(Options(d, "artist_name")),
     albums    |-> Range(Options(d, "album_name")),
     platforms |-> Range(Options(d, "platform"))]

\* ---------- filter ----------
FilterRowsAnyFacet(d, artists, albums, platforms) ==
    SelectSeq(d, LAMBDA r : \/ r.artist_name \in artists
                            \/ r.album_name \in albums
                            \/ r.platform \in platforms)

IsIn(x, selected) == x \in selected

FilterRowsEmptyMeansAll(d, artists, albums, platforms) ==
    SelectSeq(d, LAMBDA r : /\ (artists = {} \/ r.artist_name \in artists)
                            /\ (albums = {} \/ r.album_name \in albums)
                            /\ (platforms = {} \/ r.platform \in platforms))

\* df[df.artist_name.isin(artists) & df.album_name.isin(albums) & df.platform.isin(platforms)]
FilterRows(d, artists, albums, platforms) ==
    SelectSeq(d, LAMBDA r : /\ IsIn(r.artist_name, artists)
                            /\ IsIn(r.album_name, albums)
                            /\ IsIn(r.platform, platforms))

\* ---------- aggregations ----------
\* view["ms_played"].sum()
RECURSIVE SumMs(_)
SumMs(view) ==
    IF view = <<>> THEN 0 ELSE view[1].ms_played + SumMs(Tail(view))

\* x / 3_600_000
Hours(ms) == [num |-> ms, den |-> MsPerHour]

\* view.groupby(col)["ms_played"].sum(): one entry per key, keys ascending
GroupBySum(view, col) ==
    LET keys == Sorted(Unique(view, col))
    IN  [i \in 1..Len(keys) |->
            [key   |-> keys[i],
             value |-> SumMs(SelectSeq(view, LAMBDA r : r[col] = keys[i]))]]

\* series.sort_values(ascending=False) with the default kind="quicksort", which
\* is not stable: every arrangement in non-increasing order of value is a
\* possible result
RECURSIVE DescendingOrders(_)
DescendingOrders(entries) ==
    IF entries = {} THEN {<<>>}
    ELSE LET top == {e \in entries : \A f \in entries : f.value <= e.value}
         IN  UNION {{<<e>> \o rest : rest \in DescendingOrders(entries \ {e})} : e \in top}

SortValuesDesc(series) == DescendingOrders(Range(series))

HeadNine(series) == SubSeq(series, 1, Min(TopN - 1, Len(series)))

\* series.head(10)
Head10(series) == SubSeq(series, 1, Min(TopN, Len(series)))

\* series / 3_600_000
ToHours(series) ==
    [i \in 1..Len(series) |-> [key |-> series[i].key, value |-> Hours(series[i].value)]]

\* the possible values of groupby(col).ms_played.sum().sort_values(ascending=False).head(10) / 3_600_000
TopTables(view, col) ==
    {ToHours(Head10(s)) : s \in SortValuesDesc(GroupBySum(view, col))}

\* view[DATE_COL].dt.hour.value_counts().sort_index().rename_axis("hour").reset_index(name="plays")
\* (hours are distinct index values, so sort_index leaves one possible order)
RECURSIVE HourRows(_, _)
HourRows(view, hs) ==
    IF hs = {} THEN <<>>
    ELSE LET h == CHOOSE x \in hs : \A y \in hs : x <= y
         IN  <<[hour  |-> h,
                plays |-> Len(SelectSeq(view, LAMBDA r : r[DATE_COL].hour = h))]>>
             \o HourRows(view, hs \ {h})

Hourly(view) == HourRows(view, {view[i][DATE_COL].hour : i \in 1..Len(view)})

\* filtered[filtered["playtime_s"] >= 5]
Play5(view) == SelectSeq(view, LAMBDA r : r.playtime_s.whole >= MinPlaytimeS)

\* view["platform"].value_counts(): counts per platform, sorted descending
\* by count with the same unstable sort
PlatformCounts(view) ==
    LET entries == {[key   |-> p,
                     value |-> Len(SelectSeq(view, LAMBDA r : r.platform = p))]
                    : p \in Unique(view, "platform")}
    IN  {[i \in 1..Len(s) |-> [platform |-> s[i].key, count |-> s[i].value]]
         : s \in DescendingOrders(entries)}

\* ---------- the files the script may find at CSV_PATH ----------
Row(ts, artist, album, track, ms, platform) ==
    [ts |-> ts, artist_name |-> artist, album_name |-> album,
     track_name |-> track, ms_played |-> ms, platform |-> platform]

\* rows the small files are made of: a tie between "Z" and "Y" with "Z"
\* first, two rows in one hour, a text that is no date, an hour out of
\* range, and a play shorter than 5 s
RowPool ==
    { Row(<<10, 0, 0>>,   "Z", "A", "T", 120000, "P"),
      Row(<<10, 30, 0>>,  "Y", "A", "S", 120000, "P"),
      Row(<<23, 59, 59>>, "Y", "B", "T", 60000,  "W"),
      Row(<<>>,           "Z", "B", "S", 180000, "W"),
      Row(<<24, 0, 0>>,   "X", "A", "T", 60000,  "W"),
      Row(<<0, 0, 0>>,    "X", "B", "S", 3000,   "P") }

RECURSIVE SeqsUpTo(_, _)
SeqsUpTo(S, n) ==
    IF n = 0 THEN {<<>>}
    ELSE LET shorter == SeqsUpTo(S, n - 1)
         IN  shorter \cup {Append(s, x) : s \in {t \in shorter : Len(t) = n - 1}, x \in S}

Restrict(r, columns) == [c \in columns |-> r[c]]

CsvFile(columns, rows) ==
    [exists |-> TRUE, readable |-> TRUE, columns |-> columns,
     rows |-> [i \in 1..Len(rows) |-> Restrict(rows[i], columns)]]

NoFile == [exists |-> FALSE, readable |-> FALSE, columns |-> {}, rows |-> <<>>]

UnreadableFile == [exists |-> TRUE, readable |-> FALSE, columns |-> {}, rows |-> <<>>]

ColumnSets == {REQUIRED_COLS} \cup {REQUIRED_COLS \ {c} : c \in REQUIRED_COLS}

Sources ==
    {NoFile, UnreadableFile}
    \cup {CsvFile(cols, rows) : cols \in ColumnSets, rows \in SeqsUpTo(RowPool, MaxRows)}

\* files for the rankings: k rows with k distinct artists, in descending
\* name order, and k distinct tracks, in ascending name order; row i plays
\* i seconds; when d > 0 one more row repeats the artist and track of row d
\* for one second, which ties group d with group d + 1
RankingRows(k, d) ==
    LET base == [i \in 1..k |->
                    Row(<<i % 24, 0, 0>>, Alphabet[k + 1 - i], "A", Alphabet[i],
                        i * MsPerSecond, "P")]
    IN  IF d = 0 THEN base
        ELSE Append(base, Row(<<d % 24, 30, 0>>, Alphabet[k + 1 - d], "A", Alphabet[d],
                              MsPerSecond, "P"))

RankingSources ==
    UNION {{CsvFile(REQUIRED_COLS, RankingRows(k, d)) : d \in 0..k} : k \in 0..MaxGroups}

\* ---------- the run ----------
Alert(level, text) == [level |-> level, text |-> text]

\* load_data, lines 39-41: the file is missing
LoadNotFound ==
    /\ pc = "load"
    /\ cache = <<>>
    /\ ~source.exists
    /\ alerts' = Append(alerts, Alert("error", "file not found"))
    /\ pc' = "stopped"
    /\ UNCHANGED <<source, cache, widgets, env>>

\* load_data, lines 43-47: read_csv raises
LoadReadError ==
    /\ pc = "load"
    /\ cache = <<>>
    /\ source.exists
    /\ ~source.readable
    /\ alerts' = Append(alerts, Alert("error", "error reading CSV"))
    /\ pc' = "stopped"
    /\ UNCHANGED <<source, cache, widgets, env>>

\* load_data, lines 49-52: a required column is missing
LoadMissingCols ==
    /\ pc = "load"
    /\ cache = <<>>
    /\ source.exists
    /\ source.readable
    /\ Missing(source.columns) # {}
    /\ alerts' = Append(alerts, Alert("error", "missing required columns"))
    /\ pc' = "stopped"
    /\ UNCHANGED <<source, cache, widgets, env>>

\* load_data, lines 54-57, and df = load_data(CSV_PATH): the value is memoized
LoadOk ==
    /\ pc = "load"
    /\ cache = <<>>
    /\ source.exists
    /\ source.readable
    /\ Missing(source.columns) = {}
    /\ cache' = <<Preprocess(source.rows)>>
    /\ env' = Bind(env, "df", Preprocess(source.rows))
    /\ pc' = "sidebar"
    /\ UNCHANGED <<source, widgets, alerts>>

\* df = load_data(CSV_PATH) on a later run: answered from the cache
LoadCached ==
    /\ pc = "load"
    /\ cache # <<>>
    /\ env' = Bind(env, "df", cache[1])
    /\ pc' = "sidebar"
    /\ UNCHANGED <<source, cache, widgets, alerts>>

\* lines 68-84: the three multiselects; a widget rendered for the first time
\* takes its default, afterwards it keeps what the user selected
Sidebar ==
    /\ pc = "sidebar"
    /\ widgets' = IF DOMAIN widgets = {} THEN DefaultSelection(env.df) ELSE widgets
    /\ env' = Bind(Bind(Bind(env, "artists", widgets'.artists),
                        "albums", widgets'.albums),
                   "platforms", widgets'.platforms)
    /\ pc' = "filter"
    /\ UNCHANGED <<source, cache, alerts>>

FilterStepNoEmptyGuard ==
    /\ pc = "filter"
    /\ env' = Bind(env, "filtered", FilterRows(env.df, env.artists, env.albums, env.platforms))
    /\ pc' = "metrics"
    /\ UNCHANGED <<source, cache, widgets, alerts>>

\* lines 87-95: the filter, and the stop on an empty result
FilterStep ==
    /\ pc = "filter"
    /\ env' = Bind(env, "filtered", FilterRows(env.df, env.artists, env.albums, env.platforms))
    /\ IF env'.filtered = <<>>
       THEN /\ alerts' = Append(alerts, Alert("warning", "no data matches"))
            /\ pc' = "stopped"
       ELSE /\ alerts' = alerts
            /\ pc' = "metrics"
    /\ UNCHANGED <<source, cache, widgets>>

\* lines 98-100: total listening time
Metrics ==
    /\ pc = "metrics"
    /\ env' = Bind(Bind(env, "total_ms", SumMs(env.filtered)),
                   "total_h", Hours(SumMs(env.filtered)))
    /\ pc' = "tables"
    /\ UNCHANGED <<source, cache, widgets, alerts>>

\* lines 103-121: the two Top-10 tables
Tables ==
    /\ pc = "tables"
    /\ \E ta \in TopTables(env.filtered, "artist_name"),
          tt \in TopTables(env.filtered, "track_name") :
            env' = Bind(Bind(env, "top_artists", ta), "top_tracks", tt)
    /\ pc' = "charts"
    /\ UNCHANGED <<source, cache, widgets, alerts>>

ChartsDropShortPlaysInPlace ==
    /\ pc = "charts"
    /\ \E pcs \in PlatformCounts(env.filtered) :
            env' = Bind(Bind(Bind(Bind(env, "hourly", Hourly(env.filtered)),
                                  "play5", Play5(env.filtered)),
                             "platform_counts", pcs),
                        "df", Play5(env.df))
    /\ cache' = <<Play5(cache[1])>>
    /\ pc' = "done"
    /\ UNCHANGED <<source, widgets, alerts>>

\* lines 124-175: hourly plays, the 5 s playtime subset, platform counts
Charts ==
    /\ pc = "charts"
    /\ \E pcs \in PlatformCounts(env.filtered) :
            env' = Bind(Bind(Bind(env, "hourly", Hourly(env.filtered)),
                             "play5", Play5(env.filtered)),
                        "platform_counts", pcs)
    /\ pc' = "done"
    /\ UNCHANGED <<source, cache, widgets, alerts>>

\* the user changes a multiselect: the script runs again from the top
UserSelect ==
    /\ pc \in {"done", "stopped"}
    /\ DOMAIN widgets # {}
    /\ \E a \in SUBSET Unique(cache[1], "artist_name"),
          b \in SUBSET Unique(cache[1], "album_name"),
          p \in SUBSET Unique(cache[1], "platform") :
            /\ [artists |-> a, albums |-> b, platforms |-> p] # widgets
            /\ widgets' = [artists |-> a, albums |-> b, platforms |-> p]
    /\ env' = <<>>
    /\ alerts' = <<>>
    /\ pc' = "load"
    /\ UNCHANGED <<source, cache>>

StartRun ==
    /\ cache = <<>>
    /\ widgets = <<>>
    /\ env = <<>>
    /\ alerts = <<>>
    /\ pc = "load"

Init == source \in Sources /\ StartRun

Next ==
    \/ LoadNotFound
    \/ LoadReadError
    \/ LoadMissingCols
    \/ LoadOk
    \/ LoadCached
    \/ Sidebar
    \/ FilterStep
    \/ Metrics
    \/ Tables
    \/ Charts
    \/ UserSelect

Spec == Init /\ [][Next]_vars

\* a single run over a ranking file, the multiselects left at their defaults
InitRanking == source \in RankingSources /\ StartRun

NextRanking ==
    \/ LoadOk
    \/ Sidebar
    \/ FilterStep
    \/ Metrics
    \/ Tables
    \/ Charts

SpecRanking == InitRanking /\ [][NextRanking]_vars

\* ---------- properties ----------
\* the Record passes the Selection held by the multiselects
Passes(r) ==
    /\ r.artist_name \in widgets.artists
    /\ r.album_name \in widgets.albums
    /\ r.platform \in widgets.platforms

\* sub is made of exactly the rows of full whose index is in keep, in order
IsSubsequenceAt(sub, full, keep) ==
    /\ Len(sub) = Cardinality(keep)
    /\ \A i \in keep : sub[Cardinality({k \in keep : k <= i})] = full[i]

FullSelection ==
    /\ widgets.artists = {env.df[i].artist_name : i \in 1..Len(env.df)}
    /\ widgets.albums = {env.df[i].album_name : i \in 1..Len(env.df)}
    /\ widgets.platforms = {env.df[i].platform : i \in 1..Len(env.df)}

\* C1: the filtered view holds exactly the Records of the Dataset whose
\* artist, album and platform are all selected, in the Dataset's order, none
\* added, duplicated or reordered.
C1_FilterIsSelectedSubsequence ==
    Bound("filtered") =>
        IsSubsequenceAt(env.filtered, env.df,
                        {i \in 1..Len(env.df) : Passes(env.df[i])})

C1_Witness ==
    /\ Bound("filtered")
    /\ Len(env.filtered) >= 2
    /\ Len(env.filtered) < Len(env.df)
    /\ ~Passes(env.df[2])

\* C2: the multiselects start at the full sets of distinct artist, album and
\* platform values of the Dataset, and filtering with that full Selection
\* returns the Dataset itself, every Record in the same order.
C2_FullSelectionIsIdentity ==
    /\ [](Bound("filtered") /\ FullSelection => env.filtered = env.df)
    /\ [][pc = "sidebar" /\ DOMAIN widgets = {} => pc' = "filter" /\ FullSelection']_vars

C2_Witness ==
    /\ Bound("filtered")
    /\ FullSelection
    /\ Len(env.df) = 3
    /\ Cardinality(widgets.artists) = 3
    /\ Cardinality(widgets.albums) = 2

\* C3: when one of the three selected sets is empty the filtered view is
\* empty, whatever the other two sets are.
C3_EmptySetSelectsNothing ==
    Bound("filtered") /\ (widgets.artists = {} \/ widgets.albums = {} \/ widgets.platforms = {})
        => env.filtered = <<>>

C3_Witness ==
    /\ Bound("filtered")
    /\ env.df # <<>>
    /\ widgets.albums = {}
    /\ widgets.artists = {env.df[i].artist_name : i \in 1..Len(env.df)}
    /\ widgets.platforms = {env.df[i].platform : i \in 1..Len(env.df)}

RECURSIVE SumPlays(_)
SumPlays(h) == IF h = <<>> THEN 0 ELSE h[1].plays + SumPlays(Tail(h))

\* C4: the hourly histogram has exactly 24 entries, hours 0..23 ascending,
\* an hour without plays listed with count 0, and the counts add up to the
\* number of Records of the view.
C4_HourlyIsDense ==
    Bound("hourly") =>
        /\ Len(env.hourly) = 24
        /\ \A h \in 0..23 :
              /\ env.hourly[h + 1].hour = h
              /\ env.hourly[h + 1].plays =
                    Cardinality({i \in 1..Len(env.filtered) : env.filtered[i].ts.hour = h})
        /\ SumPlays(env.hourly) = Len(env.filtered)

\* index of the first Record of the view in group key
FirstAppearance(view, col, key) ==
    CHOOSE i \in 1..Len(view) :
        /\ view[i][col] = key
        /\ \A j \in 1..(i - 1) : view[j][col] # key

TiesInFirstAppearanceOrder(table, view, col) ==
    \A i, j \in 1..Len(table) :
        i < j /\ table[i].value = table[j].value =>
            FirstAppearance(view, col, table[i].key) < FirstAppearance(view, col, table[j].key)

\* C5: in both Top-10 tables, two groups with equal summed ms_played are
\* listed in the order in which their first Records appear in the view.
C5_TiesKeepFirstAppearanceOrder ==
    Bound("top_artists") =>
        /\ TiesInFirstAppearanceOrder(env.top_artists, env.filtered, "artist_name")
        /\ TiesInFirstAppearanceOrder(env.top_tracks, env.filtered, "track_name")

\* summed ms_played of the Records of the view in group key
RECURSIVE GroupTotal(_, _, _, _)
GroupTotal(view, col, key, n) ==
    IF n = 0 THEN 0
    ELSE GroupTotal(view, col, key, n - 1)
         + (IF view[n][col] = key THEN view[n].ms_played ELSE 0)

IsTopTen(table, view, col) ==
    LET keys == {view[i][col] : i \in 1..Len(view)}
        listed == {table[i].key : i \in 1..Len(table)}
    IN  /\ Len(table) = IF Cardinality(keys) < 10 THEN Cardinality(keys) ELSE 10
        /\ listed \subseteq keys
        /\ Cardinality(listed) = Len(table)
        /\ \A i \in 1..Len(table) :
              table[i].value = [num |-> GroupTotal(view, col, table[i].key, Len(view)),
                                den |-> 3600000]
        /\ \A i \in 1..(Len(table) - 1) : table[i].value.num >= table[i + 1].value.num
        /\ \A k \in keys \ listed : \A i \in 1..Len(table) :
              GroupTotal(view, col, k, Len(view)) <= table[i].value.num

\* C6: each Top-10 table of a non-empty view with k groups has min(10, k)
\* entries, one per group, each with the group's summed ms_played (as
\* hours), in non-increasing order, and no group left out has a greater sum
\* than a group listed.
C6_TopTenRanking ==
    Bound("top_artists") =>
        /\ IsTopTen(env.top_artists, env.filtered, "artist_name")
        /\ IsTopTen(env.top_tracks, env.filtered, "track_name")

C6_Witness ==
    /\ Bound("top_artists")
    /\ Cardinality({env.filtered[i].artist_name : i \in 1..Len(env.filtered)}) > 10
    /\ Cardinality({env.filtered[i].track_name : i \in 1..Len(env.filtered)}) > 10
    /\ Len(env.filtered) > Cardinality({env.filtered[i].artist_name : i \in 1..Len(env.filtered)})
    /\ Len(env.top_artists) = 10

HasAllColumns ==
    {"ts", "artist_name", "album_name", "track_name", "ms_played", "platform"}
        \subseteq source.columns

\* C7: a file that is missing, unreadable, or lacks one of the six required
\* columns ends the run with an error: no Dataset is returned or cached and
\* no filtered view or aggregate is produced.
C7_BadSourceIsFatal ==
    ~(source.exists /\ source.readable /\ HasAllColumns) =>
        /\ cache = <<>>
        /\ env = <<>>
        /\ widgets = <<>>
        /\ pc \in {"load", "stopped"}
        /\ pc = "load" => alerts = <<>>
        /\ pc = "stopped" => Len(alerts) = 1 /\ alerts[1].level = "error"

C7_Witness ==
    /\ pc = "stopped"
    /\ source.exists
    /\ source.readable
    /\ source.columns = REQUIRED_COLS \ {"track_name"}
    /\ Len(source.rows) = 2
    /\ alerts = <<Alert("error", "missing required columns")>>

Parseable == {i \in 1..Len(source.rows) : ToDatetime(source.rows[i].ts) # NaT}

IsLoadedRow(loaded, raw) ==
    /\ loaded.ts = ToDatetime(raw.ts)
    /\ \A c \in {"artist_name", "album_name", "track_name", "ms_played", "platform"} :
          loaded[c] = raw[c]

\* C8: for a file with all required columns load raises no error and the
\* Dataset is exactly the rows whose ts parses, in file order: each row with
\* an unparseable ts makes it one shorter, also when no row is left.
C8_UnparseableRowsDropped ==
    source.exists /\ source.readable /\ HasAllColumns /\ pc # "load" =>
        /\ cache # <<>>
        /\ Bound("df")
        /\ env.df = cache[1]
        /\ Len(env.df) = Cardinality(Parseable)
        /\ \A i \in Parseable :
              IsLoadedRow(env.df[Cardinality({k \in Parseable : k <= i})], source.rows[i])
        /\ \A a \in 1..Len(alerts) : alerts[a].level # "error"

C8_Witness ==
    /\ Bound("df")
    /\ Len(source.rows) = 3
    /\ Parseable = {1, 3}
    /\ Len(env.df) = 2

C8_WitnessAllDropped ==
    /\ Bound("df")
    /\ Len(source.rows) = 2
    /\ Parseable = {}
    /\ env.df = <<>>

Aggregates ==
    {"total_ms", "total_h", "top_artists", "top_tracks", "hourly", "play5", "platform_counts"}

\* C9 as stated: on an empty view the aggregate is computed and is total
\* 0.0 h, empty Top-10 tables and a 24-entry all-zero hourly histogram.
C9_EmptyViewAggregatesToZero ==
    pc \in {"done", "stopped"} /\ Bound("filtered") /\ env.filtered = <<>> =>
        /\ Aggregates \subseteq DOMAIN env
        /\ env.total_h.num = 0
        /\ env.top_artists = <<>>
        /\ env.top_tracks = <<>>
        /\ Len(env.hourly) = 24
        /\ \A h \in 0..23 : env.hourly[h + 1] = [hour |-> h, plays |-> 0]

\* C9 amended: on an empty view the run does not fail and computes no
\* aggregate: it renders the "no data" warning and stops.
C9_EmptyViewStopsWithoutAggregates ==
    Bound("filtered") /\ env.filtered = <<>> =>
        /\ pc = "stopped"
        /\ alerts = <<Alert("warning", "no data matches")>>
        /\ Aggregates \cap DOMAIN env = {}

C9_Witness ==
    /\ pc = "stopped"
    /\ Bound("filtered")
    /\ env.filtered = <<>>
    /\ Len(env.df) = 3
    /\ widgets.platforms # {}
    /\ widgets.artists # {}
    /\ widgets.albums # {}

\* C10: once load has returned, the Dataset stays as it is: every later step
\* of a run (filter, total, Top-10 tables, hourly counts, the playtime_s >= 5
\* subset, platform counts) and every later run after a Selection change
\* sees the same Records, in the same order, with the same field values.
C10_DatasetNeverChanges ==
    [][/\ cache # <<>> => cache' = cache
       /\ "df" \in DOMAIN env' => cache' # <<>> /\ env'.df = cache'[1]
       /\ "df" \in DOMAIN env /\ "df" \in DOMAIN env' => env'.df = env.df]_vars

C10_Witness ==
    /\ pc = "done"
    /\ widgets # DefaultSelection(env.df)
    /\ Len(env.play5) < Len(env.filtered)
    /\ Len(env.filtered) < Len(env.df)
    /\ env.df = cache[1]

====
